---- MODULE Spec2Model ----
(***************************************************************************)
(* Model of src/command/branch.ts: the ref-listing decoder (getBranches),  *)
(* the current-branch resolver (listBranch) and the branch mutation         *)
(* commands (createBranch, renameBranch, deleteBranch).                     *)
(*                                                                         *)
(* Text is a sequence of characters; a character is a one-character        *)
(* string, except the control characters, which carry the names below.     *)
(* A fixed literal command word ("for-each-ref", "-D") is one token.       *)
(***************************************************************************)
EXTENDS Integers, Sequences, FiniteSets, TLC

\* Largest number of records the external tool emits in one listing.
MaxRecords == 2

NUL == "NUL"
LF == "\n"
SP == " "
\* const delimiterString = String.fromCharCode(parseInt('1F', 16))
delimiterString == "US"

\* JavaScript's undefined, distinct from every text (no character is "undefined").
UNDEF == <<"undefined">>

S_heads == <<"h", "e", "a", "d", "s", "/">>
S_refs_head == <<"r", "e", "f", "s", "/", "h", "e", "a", "d">>
S_refs_heads == <<"r", "e", "f", "s", "/", "h", "e", "a", "d", "s">>
S_refs_remotes == <<"r", "e", "f", "s", "/", "r", "e", "m", "o", "t", "e", "s">>
S_refs_heads_slash == S_refs_heads \o <<"/">>

---------------------------------------------------------------------------
\* String primitives of the JavaScript runtime, as branch.ts uses them.

StartsWith(s, p) == Len(s) >= Len(p) /\ SubSeq(s, 1, Len(p)) = p

\* s.substr(1)
Substr1(s) == SubSeq(s, 2, Len(s))

IsSpace(c) == c \in {SP, LF}

RECURSIVE TrimStart(_)
TrimStart(s) == IF s # <<>> /\ IsSpace(s[1]) THEN TrimStart(Substr1(s)) ELSE s

RECURSIVE TrimEnd(_)
TrimEnd(s) ==
    IF s # <<>> /\ IsSpace(s[Len(s)]) THEN TrimEnd(SubSeq(s, 1, Len(s) - 1)) ELSE s

\* s.trim()
Trim(s) == TrimEnd(TrimStart(s))

\* s.replace(/^heads\//, ''): one leading "heads/" is removed, once.
StripHeads(s) == IF StartsWith(s, S_heads) THEN SubSeq(s, Len(S_heads) + 1, Len(s)) ELSE s

\* Index of the first occurrence of character c in s, 0 when there is none.
IndexOf(s, c) ==
    IF \E i \in 1..Len(s) : s[i] = c
    THEN CHOOSE i \in 1..Len(s) : s[i] = c /\ \A j \in 1..(i - 1) : s[j] # c
    ELSE 0

\* s.split(c): the empty text splits into one empty piece.
RECURSIVE Split(_, _)
Split(s, c) ==
    LET i == IndexOf(s, c)
    IN  IF i = 0 THEN <<s>>
        ELSE <<SubSeq(s, 1, i - 1)>> \o Split(SubSeq(s, i + 1, Len(s)), c)

\* parts.join(c)
RECURSIVE Join(_, _)
Join(parts, c) ==
    IF parts = <<>> THEN <<>>
    ELSE IF Len(parts) = 1 THEN parts[1]
    ELSE parts[1] \o <<c>> \o Join(Tail(parts), c)

\* array.reverse()
Reverse(a) == [i \in 1..Len(a) |-> a[Len(a) + 1 - i]]

\* lines.splice(-1, 1): removes the last element.
SpliceLast_dropNothing(a) == a

SpliceLast(a) == IF a = <<>> THEN a ELSE SubSeq(a, 1, Len(a) - 1)

\* array.shift() as an expression: the first element, undefined when empty.
Shift(a) == IF a = <<>> THEN <<>> ELSE <<a[1]>>

\* array[k] with a JavaScript (0-based) index: undefined beyond the end.
At(a, k) == IF k + 1 <= Len(a) THEN a[k + 1] ELSE UNDEF

---------------------------------------------------------------------------
\* Collaborators of branch.ts that live in other files of the repository.

\* CommitIdentity.parseIdentity: a structured identity, or no result.  An
\* identity line is `name <email> date`; a line without " <" ... ">" (and
\* undefined, which the real parser cannot match either) yields no result.
parseIdentity(line) ==
    LET lt == IF line = UNDEF THEN 0 ELSE IndexOf(line, "<")
        gt == IF line = UNDEF THEN 0 ELSE IndexOf(line, ">")
    IN  IF lt >= 2 /\ gt > lt /\ line[lt - 1] = SP
        THEN [ok |-> TRUE, name |-> SubSeq(line, 1, lt - 2),
              email |-> SubSeq(line, lt + 1, gt - 1)]
        ELSE [ok |-> FALSE, name |-> <<>>, email |-> <<>>]

\* new Branch(name, upstream, tip, type)
Branch(name, upstream, tip, type) ==
    [name |-> name, upstream |-> upstream, tip |-> tip, type |-> type]

\* Branch.remote: the text of the upstream before its first "/", undefined
\* when there is no upstream or no "/".
BranchRemote(b) ==
    IF b.upstream = UNDEF \/ IndexOf(b.upstream, "/") = 0 THEN UNDEF
    ELSE SubSeq(b.upstream, 1, IndexOf(b.upstream, "/") - 1)

\* Branch.upstreamWithoutRemote: the text of the upstream after its first "/".
BranchUpstreamWithoutRemote(b) ==
    IF b.upstream = UNDEF \/ IndexOf(b.upstream, "/") = 0 THEN UNDEF
    ELSE SubSeq(b.upstream, IndexOf(b.upstream, "/") + 1, Len(b.upstream))

\* git(args, path, name, options): the invocation fails (throws) when the exit
\* code is outside the allow-list of the options (by default {0}).
GitFails(exitCode, successExitCodes) == exitCode \notin successExitCodes

DefaultSuccessExitCodes == {0}

---------------------------------------------------------------------------
\* getBranches: the record decoder and the branch reconstructor.

\* line 105: the pieces of record ix (0-based): one leading character is
\* removed from every record but the first, then the record is split on NUL.
Pieces_keepLeading(line, ix) == Split(line, NUL)

Pieces(line, ix) == Split(IF ix > 0 THEN Substr1(line) ELSE line, NUL)

\* line 125: the classification of a ref path.
BranchTypeOf(ref) == IF StartsWith(ref, S_refs_head) THEN "Local" ELSE "Remote"

\* lines 115 and 119: the conditions under which the map callback throws: no
\* identity (Error), or no parent field to split (TypeError).
DecodeThrows(pieces) ==
    \/ ~parseIdentity(At(pieces, 4)).ok
    \/ At(pieces, 5) = UNDEF

\* lines 107 to 126: the Branch of one record that does not throw.
DecodeBranch(pieces) ==
    LET ref == At(pieces, 0)
        name == At(pieces, 1)
        upstream == At(pieces, 2)
        sha == At(pieces, 3)
        author == parseIdentity(At(pieces, 4))
        parentSHAs == Split(At(pieces, 5), SP)
        summary == At(pieces, 6)
        body == At(pieces, 7)
        tip == [sha |-> sha, summary |-> summary, body |-> body,
                author |-> author, parentSHAs |-> parentSHAs]
    IN  Branch(name, IF Len(upstream) > 0 THEN upstream ELSE UNDEF, tip, BranchTypeOf(ref))

\* lines 97 to 101: the records of the output.
Lines(stdout) == SpliceLast(Split(stdout, delimiterString))

\* lines 97 to 129 with the bad records skipped instead of aborting the map.
getBranches_skipBad(stdout, platform) ==
    LET lines == Lines(stdout)
        RECURSIVE Keep(_)
        Keep(i) ==
            IF i > Len(lines) THEN <<>>
            ELSE (IF DecodeThrows(Pieces(lines[i], i - 1)) THEN <<>>
                  ELSE <<DecodeBranch(Pieces(lines[i], i - 1))>>) \o Keep(i + 1)
        branches == Keep(1)
    IN  [threw |-> FALSE,
         branches |-> IF platform = "darwin" THEN Reverse(branches) ELSE branches]

\* lines 97 to 129: the decoded branches of an output, or an exception.
getBranches(stdout, platform) ==
    LET lines == Lines(stdout)
        threw == \E i \in 1..Len(lines) : DecodeThrows(Pieces(lines[i], i - 1))
        branches == [i \in 1..Len(lines) |-> DecodeBranch(Pieces(lines[i], i - 1))]
    IN  IF threw THEN [threw |-> TRUE, branches |-> <<>>]
        ELSE [threw |-> FALSE,
              branches |-> IF platform = "darwin" THEN Reverse(branches) ELSE branches]

---------------------------------------------------------------------------
\* The output of the external tool.

GoodAuthor == <<"J", " ", "<", "j", ">", " ", "1">>
BadAuthor == <<"J", "?">>

\* One ref as the batch query reports it: the eight fields of forEachRefFormat.
Ref(ref, name, upstream, sha, author, parents, summary, body) ==
    [kind |-> "ref", ref |-> ref, name |-> name, upstream |-> upstream, sha |-> sha,
     author |-> author, parents |-> parents, summary |-> summary, body |-> body,
     fields |-> <<>>]

\* A record that does not follow forEachRefFormat: any number of fields.
Raw(fields) ==
    [kind |-> "raw", ref |-> <<>>, name |-> <<>>, upstream |-> <<>>, sha |-> <<>>,
     author |-> <<>>, parents |-> <<>>, summary |-> <<>>, body |-> <<>>,
     fields |-> fields]

Refs ==
    { Ref(S_refs_heads_slash \o <<"a">>, <<"a">>, <<"o", "/", "a">>, <<"c">>,
          GoodAuthor, << <<"p">> >>, <<"s">>, <<>>),
      Ref(S_refs_heads_slash \o <<"a">>, S_heads \o <<"a">>, <<>>, <<"c">>,
          GoodAuthor, <<>>, <<"s">>, <<"b", LF, "b">>),
      Ref(S_refs_remotes \o <<"/", "o", "/", "a">>, <<"o", "/", "a">>, <<>>, <<"d">>,
          GoodAuthor, << <<"p">>, <<"q">> >>, <<"s">>, <<>>),
      Ref(S_refs_heads_slash \o <<"b">>, <<"b">>, <<>>, <<"c">>,
          BadAuthor, << <<"p">> >>, <<"s">>, <<>>),
      Ref(S_refs_head \o <<"x", "/", "b">>, <<"x", "/", "b">>, <<>>, <<"d">>,
          GoodAuthor, << <<"p">> >>, <<"s">>, <<>>) }

RawRecords ==
    { Raw(<<S_refs_heads_slash \o <<"b">>, <<"b">>, <<>>, <<"c">>>>),
      Raw(<<S_refs_heads_slash \o <<"b">>, <<"b">>, <<>>, <<"c">>, GoodAuthor>>),
      Raw(<<S_refs_heads_slash \o <<"b">>, <<"b">>, <<>>, <<"c">>, GoodAuthor,
            <<"p">>, <<"s">>, <<>>, <<"z">>>>) }

Records == Refs \cup RawRecords

\* The field texts of a record, in the order of forEachRefFormat.
Fields(r) ==
    IF r.kind = "ref"
    THEN <<r.ref, r.name, r.upstream, r.sha, r.author, Join(r.parents, SP),
           r.summary, r.body>>
    ELSE r.fields

\* forEachRefFormat: the fields and the delimiter joined by %00; for-each-ref
\* ends every record with a newline.
forEachRefFormat(r) == Join(Fields(r) \o << <<delimiterString>> >>, NUL) \o <<LF>>

RECURSIVE Output(_)
Output(rs) == IF rs = <<>> THEN <<>> ELSE forEachRefFormat(rs[1]) \o Output(Tail(rs))

Listings == UNION { [1..n -> Records] : n \in 0..MaxRecords }

\* What `rev-parse --abbrev-ref HEAD` prints.
HeadOutputs ==
    { <<"a", LF>>, S_heads \o <<"a", LF>>, <<"b", LF>>, S_heads \o S_heads \o <<"a", LF>> }

HeadExitCodes == {0, 1, 128, 2}
ExitCodes == {0, 1}

Names == { <<"a">>, <<"b">> }
Platforms == {"linux", "darwin"}

---------------------------------------------------------------------------
\* The program: one call of a public operation, suspended at its awaits.

VARIABLES
    platform,     \* process.platform
    pc,           \* the await the call is suspended at: "idle", a source line, "done"
    call,         \* the operation called and its arguments
    invocations,  \* the external invocations started so far, in order
    revParse,     \* listBranch: the result of the HEAD query (line 33)
    forEachRef,   \* getBranches: the result of the ref-listing query (line 96)
    records,      \* the records the external tool put into that result
    branches,     \* deleteBranch: the pre-deletion listing (line 79)
    result,       \* the value the call returned
    error         \* whether the call raised an error

vars == <<platform, pc, call, invocations, revParse, forEachRef, records, branches,
          result, error>>

W(word) == <<word>>

NoResult == [exitCode |-> -1, stdout |-> <<>>]
NoValue == [kind |-> "none", value |-> <<>>]

Call(op, type, name, other, force, flag) ==
    [op |-> op, type |-> type, name |-> name, other |-> other, force |-> force,
     flag |-> flag]

\* git(args, ...) is started: the invocation is in flight.
Invoke(invs, name, args) ==
    Append(invs, [name |-> name, args |-> args, status |-> "pending"])

\* `await git(...)`: the caller resumes only once the invocation in flight has
\* returned, with its failure as an exception.
Await_noWait(invs, failed) == invs

Await(invs, failed) ==
    [invs EXCEPT ![Len(invs)].status = IF failed THEN "failed" ELSE "ok"]

\* lines 91 to 95: the argument list of the ref-listing query.
getBranchesArgs(prefixes) ==
    <<W("for-each-ref"), W("--format=forEachRefFormat"), W("--sort=-committerdate")>>
        \o (IF prefixes = <<>> THEN <<S_refs_heads, S_refs_remotes>> ELSE prefixes)

\* line 37: the exit codes of the HEAD query that mean "no current branch".
NoCurrentBranch_only1(exitCode) == exitCode = 1

NoCurrentBranch(exitCode) == exitCode = 1 \/ exitCode = 128

\* line 31: the allow-list of the HEAD query.
HeadSuccessExitCodes == {0, 1, 128}

\* line 41: the branch name of the HEAD query's output.
HeadName(stdout) == StripHeads(Trim(stdout))

\* lines 46 to 48: the branches listBranch returns for a type.
FilterType(brs, type) ==
    IF type = "all" THEN brs
    ELSE SelectSeq(brs, LAMBDA b : b.type = (IF type = "local" THEN "Local" ELSE "Remote"))

\* line 82: branches.find(...): the index of the first branch of that name, 0
\* when there is none.
FindBranch(brs, name) ==
    IF \E i \in 1..Len(brs) : StripHeads(brs[i].name) = name
    THEN CHOOSE i \in 1..Len(brs) :
            /\ StripHeads(brs[i].name) = name
            /\ \A j \in 1..(i - 1) : StripHeads(brs[j].name) # name
    ELSE 0

Truthy(text) == text # UNDEF /\ text # <<>>

\* lines 81 to 83: whether the remote deletion is pushed.
ShouldPush_anyMatch(remote, brs, name) ==
    remote /\ Len(brs) > 0 /\ FindBranch(brs, name) # 0

ShouldPush(remote, brs, name) ==
    /\ remote
    /\ Len(brs) > 0
    /\ FindBranch(brs, name) # 0
    /\ Truthy(BranchRemote(brs[FindBranch(brs, name)]))

Init ==
    /\ platform \in Platforms
    /\ pc = "idle"
    /\ call = Call("none", "none", <<>>, <<>>, FALSE, FALSE)
    /\ invocations = <<>>
    /\ revParse = NoResult
    /\ forEachRef = NoResult
    /\ records = <<>>
    /\ branches = <<>>
    /\ result = NoValue
    /\ error = FALSE

\* The call ends with an exception.
Throw ==
    /\ pc' = "done"
    /\ error' = TRUE
    /\ result' = NoValue

\* The call ends with a value.
Return(kind, value) ==
    /\ pc' = "done"
    /\ error' = FALSE
    /\ result' = [kind |-> kind, value |-> value]

\* lines 21 to 33 and 44, 90 to 96: listBranch up to its first await.
ListBranch ==
    /\ pc = "idle"
    /\ \E type \in {"current", "local", "remote", "all"} :
        /\ call' = Call("listBranch", type, <<>>, <<>>, FALSE, FALSE)
        /\ IF type = "current"
           THEN /\ invocations' = Invoke(invocations, "getCurrentBranch",
                                        <<W("rev-parse"), W("--abbrev-ref"), W("HEAD")>>)
                /\ pc' = "listBranch:33"
           ELSE /\ invocations' = Invoke(invocations, "getBranches", getBranchesArgs(<<>>))
                /\ pc' = "listBranch:44"
    /\ UNCHANGED <<platform, revParse, forEachRef, records, branches, result, error>>

\* lines 33 to 42, 90 to 96: the HEAD query returns.
ListBranchHead ==
    /\ pc = "listBranch:33"
    /\ \E exitCode \in HeadExitCodes, stdout \in HeadOutputs :
        /\ revParse' = [exitCode |-> exitCode,
                        stdout |-> IF exitCode = 0 THEN stdout ELSE <<>>]
        /\ IF GitFails(exitCode, HeadSuccessExitCodes)
           THEN /\ invocations' = Await(invocations, TRUE)
                /\ Throw
           ELSE IF NoCurrentBranch(exitCode)
           THEN /\ invocations' = Await(invocations, FALSE)
                /\ Return("undefined", <<>>)
           ELSE /\ invocations' =
                      Invoke(Await(invocations, FALSE), "getBranches",
                             getBranchesArgs(<<S_refs_heads_slash \o HeadName(revParse'.stdout)>>))
                /\ pc' = "listBranch:42"
                /\ UNCHANGED <<result, error>>
    /\ UNCHANGED <<platform, call, forEachRef, records, branches>>

\* line 96: the ref-listing query returns what the external tool answered.
GitListing(exitCode, rs) ==
    /\ exitCode # 0 => rs = <<>>
    /\ records' = rs
    /\ forEachRef' = [exitCode |-> exitCode, stdout |-> Output(rs)]

\* lines 96 to 129: getBranches raises an error: the query failed, or the
\* decoding of its output threw.
GetBranchesFails(exitCode) ==
    \/ GitFails(exitCode, DefaultSuccessExitCodes)
    \/ getBranches(forEachRef'.stdout, platform).threw

\* The error of getBranches leaves its caller, which does not catch it.
GetBranchesThrows(exitCode) ==
    /\ invocations' = Await(invocations, GitFails(exitCode, DefaultSuccessExitCodes))
    /\ Throw

\* line 42: the restricted listing returns; its first branch is the result.
ListBranchCurrent ==
    /\ pc = "listBranch:42"
    /\ \E exitCode \in ExitCodes, rs \in Listings :
        /\ GitListing(exitCode, rs)
        /\ IF GetBranchesFails(exitCode)
           THEN GetBranchesThrows(exitCode)
           ELSE LET first == Shift(getBranches(forEachRef'.stdout, platform).branches)
                IN  /\ invocations' = Await(invocations, FALSE)
                    /\ IF first = <<>> THEN Return("undefined", <<>>)
                                       ELSE Return("branch", first)
    /\ UNCHANGED <<platform, call, revParse, branches>>

\* lines 44 to 50: the full listing returns and is filtered by type.
ListBranchFilter ==
    /\ pc = "listBranch:44"
    /\ \E exitCode \in ExitCodes, rs \in Listings :
        /\ GitListing(exitCode, rs)
        /\ IF GetBranchesFails(exitCode)
           THEN GetBranchesThrows(exitCode)
           ELSE /\ invocations' = Await(invocations, FALSE)
                /\ Return("list", FilterType(getBranches(forEachRef'.stdout, platform).branches,
                                             call.type))
    /\ UNCHANGED <<platform, call, revParse, branches>>

\* lines 54 to 66: createBranch up to its await.
CreateBranch ==
    /\ pc = "idle"
    /\ \E name \in Names, startPoint \in {UNDEF, <<"a">>}, checkout \in BOOLEAN :
        /\ call' = Call("createBranch", "none", name, startPoint, FALSE, checkout)
        /\ invocations' =
              Invoke(invocations, "createBranch",
                     (IF checkout THEN <<W("checkout"), W("-b"), name>>
                                  ELSE <<W("branch"), name>>)
                         \o (IF Truthy(startPoint) THEN <<startPoint>> ELSE <<>>))
    /\ pc' = "createBranch:66"
    /\ UNCHANGED <<platform, revParse, forEachRef, records, branches, result, error>>

\* lines 69 to 72: renameBranch up to its await.
RenameBranch ==
    /\ pc = "idle"
    /\ \E name \in Names, newName \in Names, force \in BOOLEAN :
        /\ call' = Call("renameBranch", "none", name, newName, force, FALSE)
        /\ invocations' =
              Invoke(invocations, "renameBranch",
                     <<W("branch"), W(IF force THEN "-M" ELSE "-m"), name, newName>>)
    /\ pc' = "renameBranch:72"
    /\ UNCHANGED <<platform, revParse, forEachRef, records, branches, result, error>>

\* lines 66 and 72: the single invocation of createBranch or renameBranch returns.
MutationReturns ==
    /\ pc \in {"createBranch:66", "renameBranch:72"}
    /\ \E exitCode \in ExitCodes :
        IF GitFails(exitCode, DefaultSuccessExitCodes)
        THEN /\ invocations' = Await(invocations, TRUE)
             /\ Throw
        ELSE /\ invocations' = Await(invocations, FALSE)
             /\ Return("void", <<>>)
    /\ UNCHANGED <<platform, call, revParse, forEachRef, records, branches>>

\* line 78: the argument list of the deletion.
deleteArgs(name, force) == <<W("branch"), W(IF force THEN "-D" ELSE "-d"), name>>

\* lines 75 to 80: deleteBranch up to its first await: the pre-deletion
\* listing when remote is set, the deletion itself otherwise.
DeleteBranch ==
    /\ pc = "idle"
    /\ \E name \in Names, force \in BOOLEAN, remote \in BOOLEAN :
        /\ call' = Call("deleteBranch", "none", name, <<>>, force, remote)
        /\ IF remote
           THEN /\ invocations' = Invoke(invocations, "getBranches", getBranchesArgs(<<>>))
                /\ pc' = "deleteBranch:79"
           ELSE /\ invocations' = Invoke(invocations, "deleteBranch", deleteArgs(name, force))
                /\ pc' = "deleteBranch:80"
    /\ UNCHANGED <<platform, revParse, forEachRef, records, branches, result, error>>

\* lines 79 and 80: the pre-deletion listing returns; the deletion is started.
DeleteBranchListed ==
    /\ pc = "deleteBranch:79"
    /\ \E exitCode \in ExitCodes, rs \in Listings :
        /\ GitListing(exitCode, rs)
        /\ IF GetBranchesFails(exitCode)
           THEN GetBranchesThrows(exitCode) /\ UNCHANGED branches
           ELSE /\ branches' = getBranches(forEachRef'.stdout, platform).branches
                /\ invocations' = Invoke(Await(invocations, FALSE), "deleteBranch",
                                         deleteArgs(call.name, call.force))
                /\ pc' = "deleteBranch:80"
                /\ UNCHANGED <<result, error>>
    /\ UNCHANGED <<platform, call, revParse>>

\* lines 80 to 86: the deletion returns; the remote deletion is pushed when a
\* branch of that name with a remote was listed.
DeleteBranchDeleted ==
    /\ pc = "deleteBranch:80"
    /\ \E exitCode \in ExitCodes :
        IF GitFails(exitCode, DefaultSuccessExitCodes)
        THEN /\ invocations' = Await(invocations, TRUE)
             /\ Throw
        ELSE IF ShouldPush(call.flag, branches, call.name)
        THEN LET branch == branches[FindBranch(branches, call.name)]
             IN  /\ invocations' =
                       Invoke(Await(invocations, FALSE), "deleteRemoteBranch",
                              <<W("push"), BranchRemote(branch),
                                <<":">> \o BranchUpstreamWithoutRemote(branch)>>)
                 /\ pc' = "deleteBranch:85"
                 /\ UNCHANGED <<result, error>>
        ELSE /\ invocations' = Await(invocations, FALSE)
             /\ Return("void", <<>>)
    /\ UNCHANGED <<platform, call, revParse, forEachRef, records, branches>>

\* lines 85 to 88: the push of the remote deletion returns.
DeleteBranchPushed ==
    /\ pc = "deleteBranch:85"
    /\ \E exitCode \in ExitCodes :
        IF GitFails(exitCode, DefaultSuccessExitCodes)
        THEN /\ invocations' = Await(invocations, TRUE)
             /\ Throw
        ELSE /\ invocations' = Await(invocations, FALSE)
             /\ Return("void", <<>>)
    /\ UNCHANGED <<platform, call, revParse, forEachRef, records, branches>>

Next ==
    \/ ListBranch
    \/ ListBranchHead
    \/ ListBranchCurrent
    \/ ListBranchFilter
    \/ CreateBranch
    \/ RenameBranch
    \/ MutationReturns
    \/ DeleteBranch
    \/ DeleteBranchListed
    \/ DeleteBranchDeleted
    \/ DeleteBranchPushed

Spec == Init /\ [][Next]_vars

---------------------------------------------------------------------------
\* Properties.

Current == call.op = "listBranch" /\ call.type = "current"

\* Every record of the listing follows forEachRefFormat and carries an
\* identity line the identity parser accepts.
WellFormed(rs) == \A i \in 1..Len(rs) : rs[i].kind = "ref" /\ rs[i].author = GoodAuthor

Pushed == \E i \in 1..Len(invocations) : invocations[i].name = "deleteRemoteBranch"

\* A branch of the requested name with a non-empty remote is in the
\* pre-deletion listing.
ListedWithRemote ==
    \E j \in 1..Len(branches) :
        StripHeads(branches[j].name) = call.name /\ Truthy(BranchRemote(branches[j]))

\* C1: listBranch('current') follows the exit-code table of the HEAD query:
\* 1 and 128 end the call with the undefined result, no error and no
\* ref-listing query; 0 goes on to the ref-listing query; any other exit code
\* ends the call with an error and no ref-listing query.
C1_HeadExitCodeTable ==
    (Current /\ revParse # NoResult) =>
        /\ revParse.exitCode \in {1, 128} =>
              /\ pc = "done" /\ ~error /\ result.kind = "undefined"
              /\ Len(invocations) = 1
        /\ revParse.exitCode = 0 =>
              /\ Len(invocations) = 2
              /\ invocations[1].status = "ok"
              /\ invocations[2].name = "getBranches"
        /\ revParse.exitCode \notin {0, 1, 128} =>
              /\ pc = "done" /\ error /\ result = NoValue
              /\ Len(invocations) = 1
              /\ invocations[1].status = "failed"

C1_UnbornHead ==
    /\ Current /\ pc = "done" /\ revParse.exitCode = 128
    /\ result.kind = "undefined" /\ Len(invocations) = 1

\* C2: when the HEAD query exits 0 with output "heads/<n>", the listing is
\* restricted to exactly refs/heads/<n> and the branch returned for that ref
\* has name <n>; without the prefix the name is used unchanged.
C2_CurrentNameStripped ==
    LET out == Trim(revParse.stdout)
        n == IF StartsWith(out, S_heads) THEN SubSeq(out, Len(S_heads) + 1, Len(out))
             ELSE out
    IN  (/\ Current /\ pc = "done" /\ ~error /\ result.kind = "branch"
         /\ Len(records) = 1 /\ WellFormed(records)
         /\ records[1].ref = S_refs_heads_slash \o n) =>
            /\ invocations[2].args = getBranchesArgs(<<S_refs_heads_slash \o n>>)
            /\ StartsWith(out, S_heads) => result.value[1].name = n

\* C3: when the HEAD query exits 0 and the restricted listing yields zero
\* records, listBranch('current') returns undefined without an error; when it
\* yields one record, that record's branch is returned.
C3_ZeroRecordsIsNoBranch ==
    (Current /\ pc = "done" /\ revParse.exitCode = 0 /\ forEachRef.exitCode = 0) =>
        /\ records = <<>> => (~error /\ result.kind = "undefined")
        /\ (Len(records) = 1 /\ WellFormed(records)) =>
              /\ ~error /\ result.kind = "branch"
              /\ result.value[1].tip.sha = records[1].sha
              /\ result.value[1].tip.summary = records[1].summary
              /\ result.value[1].tip.body = records[1].body

C3_RefGone ==
    /\ Current /\ pc = "done" /\ revParse.exitCode = 0 /\ forEachRef.exitCode = 0
    /\ records = <<>> /\ result.kind = "undefined" /\ ~error

\* C4 (as amended): the remote deletion is pushed only if remote is set and
\* the pre-deletion listing holds a branch of the requested name (a leading
\* "heads/" stripped) with a non-empty remote; a deletion without remote
\* issues exactly one invocation; a successful deletion with remote of a
\* branch that has no such listed remote issues exactly two, the listing and
\* the deletion.
C4_PushOnlyForListedRemote ==
    call.op = "deleteBranch" =>
        /\ Pushed => (call.flag /\ ListedWithRemote)
        /\ (pc = "done" /\ ~call.flag) =>
              (Len(invocations) = 1 /\ invocations[1].name = "deleteBranch")
        /\ (pc = "done" /\ ~error /\ call.flag /\ ~ListedWithRemote) =>
              /\ Len(invocations) = 2
              /\ invocations[1].name = "getBranches"
              /\ invocations[2].name = "deleteBranch"

C4_LocalOnlyWithRemoteOption ==
    /\ call.op = "deleteBranch" /\ pc = "done" /\ ~error /\ call.flag
    /\ Len(branches) > 0 /\ FindBranch(branches, call.name) # 0
    /\ ~ListedWithRemote /\ ~Pushed /\ Len(invocations) = 2

\* C4 (as stated): deleting a branch that has no listed remote issues exactly
\* one external invocation.
C4_LocalOnlyOneInvocation ==
    (call.op = "deleteBranch" /\ pc = "done" /\ ~error /\ ~ListedWithRemote) =>
        Len(invocations) = 1

\* C5: the listing fails whenever a record does not split into the expected
\* number of fields (eight, or nine pieces counting the empty piece the
\* format's last NUL leaves before the sentinel); no such record becomes a
\* Branch.
C5_FieldCountMismatchFails ==
    LET lines == Lines(forEachRef.stdout)
    IN  (/\ forEachRef.exitCode = 0
         /\ \E i \in 1..Len(lines) : Len(Pieces(lines[i], i - 1)) \notin {8, 9}) =>
            (pc = "done" /\ error)

\* C6: if the identity parser yields no result for the author field of any
\* record of the output, whatever its position, the operation fails with an
\* error and returns no partial list.
C6_BadIdentityAbortsListing ==
    (/\ forEachRef.exitCode = 0
     /\ \E i \in 1..Len(records) : records[i].kind = "ref" /\ records[i].author = BadAuthor) =>
        /\ pc = "done" /\ error
        /\ result = NoValue
        /\ branches = <<>>
        /\ invocations[Len(invocations)].name = "getBranches"

C6_BadSecondRecord ==
    /\ call.op = "listBranch" /\ call.type = "all" /\ pc = "done"
    /\ Len(records) = 2 /\ records[1].author = GoodAuthor /\ records[1].kind = "ref"
    /\ records[2].kind = "ref" /\ records[2].author = BadAuthor
    /\ error /\ result = NoValue

Original(r) ==
    [name |-> r.name,
     upstream |-> IF r.upstream = <<>> THEN UNDEF ELSE r.upstream,
     sha |-> r.sha, parents |-> r.parents, summary |-> r.summary, body |-> r.body,
     type |-> IF StartsWith(r.ref, S_refs_heads_slash) THEN "Local" ELSE "Remote"]

\* The same data of a decoded Branch.
Decoded(b) ==
    [name |-> b.name, upstream |-> b.upstream, sha |-> b.tip.sha,
     parents |-> b.tip.parentSHAs, summary |-> b.tip.summary, body |-> b.tip.body,
     type |-> b.type]

Namespaced(rs) ==
    \A i \in 1..Len(rs) :
        StartsWith(rs[i].ref, S_refs_heads_slash) \/ StartsWith(rs[i].ref, S_refs_remotes)

\* C8: encoding a list of branch data in the batch-output format and decoding
\* it reproduces the data exactly: name, upstream presence, hash, parents,
\* summary, body and classification (stated for refs of the two requested
\* namespaces, off the platform whose order is reversed).
C8_RoundTrip ==
    (/\ call.op = "listBranch" /\ call.type = "all" /\ pc = "done"
     /\ forEachRef.exitCode = 0 /\ WellFormed(records) /\ Namespaced(records)
     /\ platform # "darwin") =>
        /\ ~error
        /\ Len(result.value) = Len(records)
        /\ \A i \in 1..Len(records) : Decoded(result.value[i]) = Original(records[i])

\* C9 (as amended): a well-formed output of K records decodes to exactly K
\* records and K branches; every record but the first loses exactly its one
\* leading character, and every record splits into nine pieces: the eight
\* fields, of which the code reads each by position, and one empty piece left
\* by the NUL that precedes the sentinel.
C9_KRecordsKBranches ==
    LET lines == Lines(forEachRef.stdout)
    IN  (pc = "done" /\ forEachRef.exitCode = 0 /\ WellFormed(records)) =>
            /\ Len(lines) = Len(records)
            /\ \A i \in 1..Len(lines) :
                  LET p == Pieces(lines[i], i - 1)
                  IN  /\ Len(p) = 9
                      /\ p[9] = <<>>
                      /\ SubSeq(p, 1, 8) = Fields(records[i])
            /\ (call.op = "listBranch" /\ call.type = "all") =>
                  (~error /\ Len(result.value) = Len(records))

C9_TwoRecords ==
    /\ call.op = "listBranch" /\ call.type = "all" /\ pc = "done" /\ ~error
    /\ forEachRef.exitCode = 0 /\ WellFormed(records)
    /\ Len(records) = 2 /\ Len(result.value) = 2

\* C9 (as stated): every record of a well-formed output splits into exactly
\* eight fields.
C9_EightFields ==
    LET lines == Lines(forEachRef.stdout)
    IN  (pc = "done" /\ forEachRef.exitCode = 0 /\ WellFormed(records)) =>
            \A i \in 1..Len(lines) : Len(Pieces(lines[i], i - 1)) = 8

\* C10 (as amended): a public operation issues one to three external
\* invocations per call (three only for deleteBranch with remote set: the
\* listing, the deletion and the push), strictly one after the other: at most
\* the last invocation is in flight, and every earlier one returned without
\* failing.
C10_SequentialInvocations ==
    /\ \A i \in 1..(Len(invocations) - 1) : invocations[i].status = "ok"
    /\ pc \notin {"idle", "done"} => invocations[Len(invocations)].status = "pending"
    /\ pc = "done" =>
          /\ Len(invocations) \in 1..3
          /\ invocations[Len(invocations)].status # "pending"
          /\ error \/ invocations[Len(invocations)].status = "ok"
    /\ Len(invocations) = 3 => (call.op = "deleteBranch" /\ call.flag)

C10_ThreeInvocations ==
    /\ call.op = "deleteBranch" /\ pc = "done" /\ ~error
    /\ Len(invocations) = 3
    /\ \A i \in 1..3 : invocations[i].status = "ok"

\* C10 (as stated): every public operation issues one or two external
\* invocations per call.
C10_OneOrTwoInvocations ==
    pc = "done" => Len(invocations) \in {1, 2}

====
